---- MODULE Spec2Model ----
(***************************************************************************)
(* Cardinal Signposts: the marker-file generator (SignpostGenerator) and   *)
(* the validator (validate_signposts) acting on a project directory tree.  *)
(*                                                                         *)
(* Text is modelled as a sequence of atoms.  An atom is one character,     *)
(* except that the fixed banner and rule lines of the root marker and the  *)
(* box-drawing glyphs of the tree renderer are each one opaque atom (none  *)
(* of them contains "ROOT:", "HERE:", "ROLE:", "/" or a newline).  A file's*)
(* content is the sequence of its lines ("\n".join / split('\n')); no atom *)
(* of the model is a newline.                                              *)
(***************************************************************************)
EXTENDS Integers, Sequences, FiniteSets, TLC

\* ------------------------------------------------------------------ text
LowerLetters ==
    <<"a", "b", "c", "d", "e", "f", "g", "h", "i", "j", "k", "l", "m", "n", "o", "p", "q", "r", "s", "t", "u", "v", "w", "x", "y", "z">>
UpperLetters ==
    <<"A", "B", "C", "D", "E", "F", "G", "H", "I", "J", "K", "L", "M", "N", "O", "P", "Q", "R", "S", "T", "U", "V", "W", "X", "Y", "Z">>
\* The characters of the model in code-point order (str comparison in sorted()).
CharOrder ==
    <<" ", ".", "/", ":", "A", "B", "C", "D", "E", "F", "G", "H", "I", "J", "K", "L", "M", "N", "O", "P", "Q", "R", "S", "T", "U", "V", "W", "X", "Y", "Z", "_", "a", "b", "c", "d", "e", "f", "g", "h", "i", "j", "k", "l", "m", "n", "o", "p", "q", "r", "s", "t", "u", "v", "w", "x", "y", "z">>

IndexIn(c, t) ==
    IF \E i \in 1..Len(t) : t[i] = c
    THEN CHOOSE i \in 1..Len(t) : t[i] = c
    ELSE 0

\* f[x] where f is defined, v elsewhere
value_or(f, x, v) == IF x \in DOMAIN f THEN f[x] ELSE v

\* the tables of str.upper(), str.lower() and of the code-point order,
\* computed once from the letter tables
UpperOf ==
    [c \in {LowerLetters[i] : i \in 1..Len(LowerLetters)} |->
        UpperLetters[IndexIn(c, LowerLetters)]]

LowerOf ==
    [c \in {UpperLetters[i] : i \in 1..Len(UpperLetters)} |->
        LowerLetters[IndexIn(c, UpperLetters)]]

OrderIndex ==
    [c \in {CharOrder[i] : i \in 1..Len(CharOrder)} |-> IndexIn(c, CharOrder)]

\* the position of c in the code-point order (0 for a character outside it)
ord(c) == value_or(OrderIndex, c, 0)

\* str.upper() / str.lower(), character by character
upper_char(c) == value_or(UpperOf, c, c)

lower_char(c) == value_or(LowerOf, c, c)

upper(s) == [i \in 1..Len(s) |-> upper_char(s[i])]

lower(s) == [i \in 1..Len(s) |-> lower_char(s[i])]

\* str.capitalize(): first character upper-cased, the rest lower-cased
capitalize(s) ==
    [i \in 1..Len(s) |-> IF i = 1 THEN upper_char(s[i]) ELSE lower_char(s[i])]

startswith(s, p) == Len(s) >= Len(p) /\ SubSeq(s, 1, Len(p)) = p

endswith(s, p) == Len(s) >= Len(p) /\ SubSeq(s, Len(s) - Len(p) + 1, Len(s)) = p

\* position of the first occurrence of p in s, 0 when there is none (str.find)
find(s, p) ==
    LET hits == {i \in 1..(Len(s) - Len(p) + 1) : SubSeq(s, i, i + Len(p) - 1) = p}
    IN  IF hits = {} THEN 0 ELSE CHOOSE i \in hits : \A j \in hits : i <= j

\* p in s
contains(s, p) == find(s, p) > 0

\* s.split(sep)[1], for s that contains sep: the text between the first
\* occurrence of sep and the next one (or the end of s)
split_second(s, sep) ==
    LET i    == find(s, sep)
        rest == SubSeq(s, i + Len(sep), Len(s))
        j    == find(rest, sep)
    IN  IF j = 0 THEN rest ELSE SubSeq(rest, 1, j - 1)

RECURSIVE lstrip(_)
lstrip(s) == IF s # <<>> /\ Head(s) = " " THEN lstrip(Tail(s)) ELSE s

RECURSIVE rstrip(_, _)
rstrip(s, c) ==
    IF s # <<>> /\ s[Len(s)] = c THEN rstrip(SubSeq(s, 1, Len(s) - 1), c) ELSE s

\* str.strip()
strip(s) == rstrip(lstrip(s), " ")

\* sep.join(parts)
RECURSIVE join(_, _)
join(parts, sep) ==
    IF parts = <<>> THEN <<>>
    ELSE IF Len(parts) = 1 THEN parts[1]
    ELSE parts[1] \o sep \o join(Tail(parts), sep)

\* s < t in Python's string order
RECURSIVE str_less(_, _)
str_less(s, t) ==
    IF t = <<>> THEN FALSE
    ELSE IF s = <<>> THEN TRUE
    ELSE IF Head(s) = Head(t) THEN str_less(Tail(s), Tail(t))
    ELSE ord(Head(s)) < ord(Head(t))

\* the elements of a finite set of strings as a sequence in ascending order
RECURSIVE sorted(_)
sorted(set) ==
    IF set = {} THEN <<>>
    ELSE LET m == CHOOSE x \in set : \A y \in set : y = x \/ str_less(x, y)
         IN  <<m>> \o sorted(set \ {m})

reversed(s) == [i \in 1..Len(s) |-> s[Len(s) + 1 - i]]

RECURSIVE flatten(_)
flatten(ss) == IF ss = <<>> THEN <<>> ELSE Head(ss) \o flatten(Tail(ss))

Range(s) == {s[i] : i \in 1..Len(s)}

\* ------------------------------------------------------------- constants
SLASH ==
    <<"/">>

UNDERSCORE ==
    <<"_">>

\* the marker naming convention: startswith("_CARDINAL_") and endswith(".txt")
PREFIX ==
    <<"_", "C", "A", "R", "D", "I", "N", "A", "L", "_">>

SUFFIX ==
    <<".", "t", "x", "t">>

ROOT_SIGNPOST ==
    <<"_", "C", "A", "R", "D", "I", "N", "A", "L", "_", "R", "O", "O", "T", ".", "t", "x", "t">>

ROOT_FIELD ==
    <<"R", "O", "O", "T", ":">>

HERE_FIELD ==
    <<"H", "E", "R", "E", ":">>

ROLE_FIELD ==
    <<"R", "O", "L", "E", ":">>

ROOT_ROLE ==
    <<"P", "r", "o", "j", "e", "c", "t", " ", "r", "o", "o", "t", " ", "d", "i", "r", "e", "c", "t", "o", "r", "y">>

DIRECTORY_WORD ==
    <<" ", "d", "i", "r", "e", "c", "t", "o", "r", "y">>

RULE_DASH ==
    <<"-", " ">>

COLON_SPACE ==
    <<":", " ">>

required_fields == <<ROOT_FIELD, HERE_FIELD, ROLE_FIELD>>

\* ['node_modules', '__pycache__', 'venv', 'env', '.git']
excluded_names ==
    {<<"n", "o", "d", "e", "_", "m", "o", "d", "u", "l", "e", "s">>,
     <<"_", "_", "p", "y", "c", "a", "c", "h", "e", "_", "_">>,
     <<"v", "e", "n", "v">>,
     <<"e", "n", "v">>,
     <<".", "g", "i", "t">>}

\* the exclusion list of the tree renderer, which has no '.git' entry
tree_excluded_names ==
    {<<"n", "o", "d", "e", "_", "m", "o", "d", "u", "l", "e", "s">>,
     <<"_", "_", "p", "y", "c", "a", "c", "h", "e", "_", "_">>,
     <<"v", "e", "n", "v">>,
     <<"e", "n", "v">>}

\* role_map of _infer_directory_role: <<lower-case name, role>>
role_map ==
    <<<<<<"s", "r", "c">>,
        <<"S", "o", "u", "r", "c", "e", " ", "c", "o", "d", "e">>>>,
      <<<<"s", "o", "u", "r", "c", "e">>,
        <<"S", "o", "u", "r", "c", "e", " ", "c", "o", "d", "e">>>>,
      <<<<"l", "i", "b">>,
        <<"L", "i", "b", "r", "a", "r", "y", " ", "c", "o", "d", "e">>>>,
      <<<<"t", "e", "s", "t", "s">>,
        <<"T", "e", "s", "t", " ", "s", "u", "i", "t", "e">>>>,
      <<<<"t", "e", "s", "t">>,
        <<"T", "e", "s", "t", " ", "s", "u", "i", "t", "e">>>>,
      <<<<"d", "o", "c", "s">>,
        <<"D", "o", "c", "u", "m", "e", "n", "t", "a", "t", "i", "o", "n">>>>,
      <<<<"d", "o", "c", "u", "m", "e", "n", "t", "a", "t", "i", "o", "n">>,
        <<"D", "o", "c", "u", "m", "e", "n", "t", "a", "t", "i", "o", "n">>>>,
      <<<<"e", "x", "a", "m", "p", "l", "e", "s">>,
        <<"E", "x", "a", "m", "p", "l", "e", " ", "c", "o", "d", "e">>>>,
      <<<<"s", "c", "r", "i", "p", "t", "s">>,
        <<"U", "t", "i", "l", "i", "t", "y", " ", "s", "c", "r", "i", "p", "t", "s">>>>,
      <<<<"c", "o", "n", "f", "i", "g">>,
        <<"C", "o", "n", "f", "i", "g", "u", "r", "a", "t", "i", "o", "n", " ", "f", "i", "l", "e", "s">>>>,
      <<<<"d", "a", "t", "a">>,
        <<"D", "a", "t", "a", " ", "f", "i", "l", "e", "s">>>>,
      <<<<"m", "o", "d", "e", "l", "s">>,
        <<"D", "a", "t", "a", " ", "m", "o", "d", "e", "l", "s">>>>,
      <<<<"v", "i", "e", "w", "s">>,
        <<"V", "i", "e", "w", " ", "t", "e", "m", "p", "l", "a", "t", "e", "s">>>>,
      <<<<"c", "o", "n", "t", "r", "o", "l", "l", "e", "r", "s">>,
        <<"C", "o", "n", "t", "r", "o", "l", "l", "e", "r", " ", "l", "o", "g", "i", "c">>>>,
      <<<<"r", "o", "u", "t", "e", "s">>,
        <<"R", "o", "u", "t", "e", " ", "d", "e", "f", "i", "n", "i", "t", "i", "o", "n", "s">>>>,
      <<<<"m", "i", "d", "d", "l", "e", "w", "a", "r", "e">>,
        <<"M", "i", "d", "d", "l", "e", "w", "a", "r", "e", " ", "c", "o", "m", "p", "o", "n", "e", "n", "t", "s">>>>,
      <<<<"u", "t", "i", "l", "s">>,
        <<"U", "t", "i", "l", "i", "t", "y", " ", "f", "u", "n", "c", "t", "i", "o", "n", "s">>>>,
      <<<<"h", "e", "l", "p", "e", "r", "s">>,
        <<"H", "e", "l", "p", "e", "r", " ", "f", "u", "n", "c", "t", "i", "o", "n", "s">>>>,
      <<<<"s", "e", "r", "v", "i", "c", "e", "s">>,
        <<"S", "e", "r", "v", "i", "c", "e", " ", "l", "a", "y", "e", "r">>>>,
      <<<<"a", "p", "i">>,
        <<"A", "P", "I", " ", "i", "m", "p", "l", "e", "m", "e", "n", "t", "a", "t", "i", "o", "n">>>>,
      <<<<"s", "t", "a", "t", "i", "c">>,
        <<"S", "t", "a", "t", "i", "c", " ", "a", "s", "s", "e", "t", "s">>>>,
      <<<<"p", "u", "b", "l", "i", "c">>,
        <<"P", "u", "b", "l", "i", "c", " ", "f", "i", "l", "e", "s">>>>,
      <<<<"a", "s", "s", "e", "t", "s">>,
        <<"A", "s", "s", "e", "t", " ", "f", "i", "l", "e", "s">>>>,
      <<<<"c", "o", "m", "p", "o", "n", "e", "n", "t", "s">>,
        <<"U", "I", " ", "c", "o", "m", "p", "o", "n", "e", "n", "t", "s">>>>,
      <<<<"p", "a", "g", "e", "s">>,
        <<"P", "a", "g", "e", " ", "c", "o", "m", "p", "o", "n", "e", "n", "t", "s">>>>,
      <<<<"l", "a", "y", "o", "u", "t", "s">>,
        <<"L", "a", "y", "o", "u", "t", " ", "c", "o", "m", "p", "o", "n", "e", "n", "t", "s">>>>,
      <<<<"h", "o", "o", "k", "s">>,
        <<"C", "u", "s", "t", "o", "m", " ", "h", "o", "o", "k", "s">>>>,
      <<<<"c", "o", "n", "t", "e", "x", "t">>,
        <<"C", "o", "n", "t", "e", "x", "t", " ", "p", "r", "o", "v", "i", "d", "e", "r", "s">>>>,
      <<<<"s", "t", "o", "r", "e">>,
        <<"S", "t", "a", "t", "e", " ", "m", "a", "n", "a", "g", "e", "m", "e", "n", "t">>>>,
      <<<<"t", "y", "p", "e", "s">>,
        <<"T", "y", "p", "e", " ", "d", "e", "f", "i", "n", "i", "t", "i", "o", "n", "s">>>>,
      <<<<"i", "n", "t", "e", "r", "f", "a", "c", "e", "s">>,
        <<"I", "n", "t", "e", "r", "f", "a", "c", "e", " ", "d", "e", "f", "i", "n", "i", "t", "i", "o", "n", "s">>>>,
      <<<<"c", "o", "n", "s", "t", "a", "n", "t", "s">>,
        <<"C", "o", "n", "s", "t", "a", "n", "t", "s">>>>,
      <<<<"e", "n", "u", "m", "s">>,
        <<"E", "n", "u", "m", "e", "r", "a", "t", "i", "o", "n", "s">>>>>>

\* the default of create_signposts(max_depth), which update() uses
DefaultMaxDepth == 10

\* the default max_depth of _generate_tree
TreeMaxDepth == 3

\* the banner and the include_rules block of the root marker, one atom per line
BANNER == <<"<U+2550 x 60>">>

rules_block ==
    << <<"BEFORE GENERATING CODE:">>,
       <<"1. pwd && ls -la">>,
       <<"2. cat _CARDINAL_*.txt (signpost in current directory)">>,
       <<"3. State absolute path out loud">>,
       <<"4. Verify file doesn't already exist">>,
       <<>>,
       <<"CONSTITUTIONAL RULES:">>,
       <<"- Absolute paths only, never use relative paths">>,
       <<"- ONE config location (verify before creating config)">>,
       <<"- NO new directories without explicit approval">>,
       <<"- Generate ONE file per operation, then STOP">>,
       <<"- All imports must use absolute paths">>,
       <<>>,
       <<"VIOLATION = HALT IMMEDIATELY">>,
       <<>> >>

\* ------------------------------------------------------------------ state
VARIABLES
    root_path,   \* the absolute path at which the project lives (text)
    root_kind,   \* what root_path names: "dir", "file" (a regular file) or "missing"
    dirs,        \* the directories of the project, as tuples of names relative to the root
    unreadable,  \* the directories whose entries cannot be listed (no read permission)
    unwritable,  \* the directories in which no file can be written or deleted
    files,       \* the files of the project: <<directory, file name>> -> lines of content
    enum_desc,   \* the order in which the file system enumerates a directory's entries
    gen,         \* the SignpostGenerator object, once constructed
    last,        \* the most recent call: operation, argument, result, files before it
    prev,        \* the call before it
    nops         \* number of steps taken

vars == <<root_path, root_kind, dirs, unreadable, unwritable, files, enum_desc, gen, last, prev, nops>>

\* ------------------------------------------------------------ file system
ROOT_DIR == <<>>

\* str(root_path / d)
abs_path(root, d) == IF d = <<>> THEN root ELSE root \o SLASH \o join(d, SLASH)

\* Path.name of an absolute path
RECURSIVE basename(_)
basename(s) ==
    LET i == find(s, SLASH) IN IF i = 0 THEN s ELSE basename(SubSeq(s, i + 1, Len(s)))

children(d) == {p \in dirs : Len(p) = Len(d) + 1 /\ SubSeq(p, 1, Len(d)) = d}

\* the entries of a directory in the order the file system enumerates them
enumerate(names) == IF enum_desc THEN reversed(sorted(names)) ELSE sorted(names)

subdir_names(d) == {p[Len(p)] : p \in children(d)}

file_names(fs, d) == {k[2] : k \in {x \in DOMAIN fs : x[1] = d}}

write_text(fs, d, name, content) ==
    [k \in DOMAIN fs \cup {<<d, name>>} |-> IF k = <<d, name>> THEN content ELSE fs[k]]

unlink_all(fs, keys) == [k \in DOMAIN fs \ keys |-> fs[k]]

\* f.startswith("_CARDINAL_") and f.endswith(".txt")
is_signpost_name(f) == startswith(f, PREFIX) /\ endswith(f, SUFFIX)

\* variant of is_excluded that keeps only the dot-prefix rule
is_excluded_dot_only(name) == startswith(name, <<".">>)

\* not d.startswith('.') and d not in ['node_modules', '__pycache__', 'venv', 'env', '.git']
is_excluded(name) == startswith(name, <<".">>) \/ name \in excluded_names

\* the filter of the tree renderer
tree_is_excluded(name) == startswith(name, <<".">>) \/ name \in tree_excluded_names

\* os.walk(root_path), top-down: the directories it yields, in order.  A
\* directory that cannot be listed is passed over without an error
\* (onerror is None) and so is a root that is no directory.  With prune, the
\* loop body removes the excluded names from dirnames before the descent.
RECURSIVE walk_from(_, _)
walk_from(d, prune) ==
    IF d \in unreadable THEN <<>>
    ELSE LET all   == enumerate(subdir_names(d))
             names == IF prune THEN SelectSeq(all, LAMBDA n : ~is_excluded(n)) ELSE all
         IN  <<d>> \o flatten([i \in 1..Len(names) |-> walk_from(d \o <<names[i]>>, prune)])

os_walk(prune) == IF root_kind = "dir" THEN walk_from(ROOT_DIR, prune) ELSE <<>>

\* -------------------------------------------------------------- generator
\* variant of _infer_directory_role that looks the name up without lower-casing it
infer_directory_role_case_sensitive(d) ==
    LET dir_name == d[Len(d)]
        hits     == {i \in 1..Len(role_map) : role_map[i][1] = dir_name}
    IN  IF hits # {} THEN role_map[CHOOSE i \in hits : TRUE][2]
        ELSE capitalize(dir_name) \o DIRECTORY_WORD

\* _infer_directory_role
infer_directory_role(d) ==
    LET dir_name == lower(d[Len(d)])
        hits     == {i \in 1..Len(role_map) : role_map[i][1] = dir_name}
    IN  IF hits # {} THEN role_map[CHOOSE i \in hits : TRUE][2]
        ELSE capitalize(dir_name) \o DIRECTORY_WORD

\* _generate_directory_content
generate_directory_content(self, d, role) ==
    << ROOT_FIELD \o <<" ">> \o self.root_path \o SLASH,
       HERE_FIELD \o <<" ">> \o abs_path(self.root_path, d) \o SLASH,
       ROLE_FIELD \o <<" ">> \o role >>

\* variant of the file name derivation that does not upper-case the segments
signpost_filename_as_is(d) == PREFIX \o join(d, UNDERSCORE) \o SUFFIX

\* the file name _create_directory_signpost derives from the relative path
signpost_filename(d) ==
    PREFIX \o join([i \in 1..Len(d) |-> upper(d[i])], UNDERSCORE) \o SUFFIX

\* _create_directory_signpost: the file it writes, as <<directory, name, content>>
create_directory_signpost(self, d) ==
    <<d, signpost_filename(d), generate_directory_content(self, d, infer_directory_role(d))>>

\* build_tree of _generate_tree: the glyph atoms stand for the box-drawing
\* strings: "|-- " a branch, "L-- " the last branch,
\* "|   " and four spaces the continuations
tree_items(fs, path) ==
    LET ds    == sorted(subdir_names(path))
        fns   == sorted(file_names(fs, path))
        items == [i \in 1..Len(ds) |-> [name |-> ds[i], is_dir |-> TRUE]]
                 \o [i \in 1..Len(fns) |-> [name |-> fns[i], is_dir |-> FALSE]]
    IN  SelectSeq(items, LAMBDA it : ~tree_is_excluded(it.name))

RECURSIVE build_tree(_, _, _, _)
build_tree(fs, path, prefix, depth) ==
    IF depth > TreeMaxDepth \/ path \in unreadable THEN <<>>
    ELSE LET items == tree_items(fs, path)
             n     == Len(items)
             entry(i) ==
                 LET item == items[i]
                     line == prefix \o (IF i = n THEN <<"L-- ">> ELSE <<"|-- ">>)
                             \o item.name \o (IF item.is_dir THEN SLASH ELSE <<>>)
                 IN  <<line>> \o
                     (IF item.is_dir
                      THEN build_tree(fs, path \o <<item.name>>,
                                      prefix \o (IF i = n THEN <<"    ">> ELSE <<"|   ">>),
                                      depth + 1)
                      ELSE <<>>)
         IN  flatten([i \in 1..n |-> entry(i)])

\* _generate_tree(self.root_path)
generate_tree(self, fs) ==
    <<basename(self.root_path) \o SLASH>> \o build_tree(fs, ROOT_DIR, <<>>, 0)

\* the directories build_tree lists (path.iterdir())
RECURSIVE tree_visited(_, _)
tree_visited(path, depth) ==
    IF depth > TreeMaxDepth THEN {}
    ELSE {path} \cup
         (IF path \in unreadable THEN {}
          ELSE UNION {tree_visited(path \o <<n>>, depth + 1) :
                      n \in {m \in subdir_names(path) : ~tree_is_excluded(m)}})

\* the "CUSTOM RULES:" block
custom_rule_line(rule) == RULE_DASH \o rule[1] \o COLON_SPACE \o rule[2]

\* variant of the block that is emitted only inside the include_rules block
custom_block_with_rules(self) ==
    IF self.custom_rules = <<>> \/ ~self.include_rules THEN <<>>
    ELSE <<<<"CUSTOM RULES:">>>>
         \o [i \in 1..Len(self.custom_rules) |-> custom_rule_line(self.custom_rules[i])]
         \o <<<<>>>>

custom_block(self) ==
    IF self.custom_rules = <<>> THEN <<>>
    ELSE <<<<"CUSTOM RULES:">>>>
         \o [i \in 1..Len(self.custom_rules) |-> custom_rule_line(self.custom_rules[i])]
         \o <<<<>>>>

\* _generate_root_content, evaluated on the files present when it is called
generate_root_content(self, fs) ==
    << BANNER,
       <<"CARDINAL RULES - READ BEFORE ANY OPERATION">>,
       BANNER,
       <<>>,
       ROOT_FIELD \o <<" ">> \o self.root_path \o SLASH,
       HERE_FIELD \o <<" ">> \o self.root_path \o SLASH,
       ROLE_FIELD \o <<" ">> \o ROOT_ROLE,
       <<>> >>
    \o (IF self.include_rules THEN rules_block ELSE <<>>)
    \o custom_block(self)
    \o (IF self.include_tree
        THEN <<<<"DIRECTORY STRUCTURE:">>>> \o generate_tree(self, fs) \o <<<<>>>>
        ELSE <<>>)

\* one effect of an operation on the file system, in the order of the code:
\* "list"   the tree renderer lists a directory (path.iterdir()),
\* "walk"   os.walk yields a directory to the loop body,
\* "write"  write_text of a marker,  "unlink" the deletion of a marker,
\* "fail"   a write_text or an unlink that raised
event(kind, d, name) == [kind |-> kind, dir |-> d, file |-> name]

\* the directories that os.walk yielded in a run of events
walked(events) == {events[i].dir : i \in {j \in 1..Len(events) : events[j].kind = "walk"}}

\* the directories build_tree lists, in the order of its recursion
RECURSIVE tree_listing(_, _)
tree_listing(path, depth) ==
    IF depth > TreeMaxDepth THEN <<>>
    ELSE <<event("list", path, <<>>)>> \o
         (IF path \in unreadable THEN <<>>
          ELSE LET ds == SelectSeq(sorted(subdir_names(path)),
                                   LAMBDA n : ~tree_is_excluded(n))
               IN  flatten([i \in 1..Len(ds) |-> tree_listing(path \o <<ds[i]>>, depth + 1)]))

\* variant of the depth test that also skips the directories at max_depth
skipped_from_max_depth(d, max_depth) == Len(d) = 0 \/ Len(d) >= max_depth

\* if depth == 0 or depth > max_depth: continue
skipped(d, max_depth) == Len(d) = 0 \/ Len(d) > max_depth

RECURSIVE write_signposts(_, _, _)
write_signposts(self, fs, ds) ==
    IF ds = <<>> THEN fs
    ELSE LET w == create_directory_signpost(self, Head(ds))
         IN  write_signposts(self, write_text(fs, w[1], w[2], w[3]), Tail(ds))

\* the result of create_signposts' loop when one turn with the effects evs,
\* which appended paths to created, is followed by the rest of the loop, r
after_turn(evs, paths, r) ==
    [files   |-> r.files,
     outcome |-> r.outcome,
     created |-> IF r.outcome = "ok" THEN paths \o r.created ELSE <<>>,
     events  |-> evs \o r.events]

\* the loop of create_signposts over the directories ds that os.walk yields:
\* the body skips depth 0 and depth > max_depth and writes a marker in the
\* others; a write_text that raises ends the loop there
RECURSIVE create_loop(_, _, _, _)
create_turn(self, fs, ds, max_depth, d, name) ==
    IF skipped(d, max_depth)
    THEN after_turn(<<event("walk", d, <<>>)>>, <<>>,
                    create_loop(self, fs, Tail(ds), max_depth))
    ELSE IF d \in unwritable
    THEN [files |-> fs, outcome |-> "raised", created |-> <<>>,
          events |-> <<event("walk", d, <<>>), event("fail", d, name)>>]
    ELSE after_turn(<<event("walk", d, <<>>), event("write", d, name)>>, <<<<d, name>>>>,
                    create_loop(self, write_signposts(self, fs, <<d>>), Tail(ds), max_depth))

create_loop(self, fs, ds, max_depth) ==
    IF ds = <<>> THEN [files |-> fs, outcome |-> "ok", created |-> <<>>, events |-> <<>>]
    ELSE create_turn(self, fs, ds, max_depth, Head(ds), signpost_filename(Head(ds)))

\* what create_signposts leaves when the root marker is written after the
\* loop, from the result r of the loop
root_marker_last(self, r) ==
    IF r.outcome = "raised"
    THEN [files |-> r.files, outcome |-> "raised", created |-> <<>>,
          visited |-> walked(r.events), events |-> r.events]
    ELSE [files   |-> write_text(r.files, ROOT_DIR, ROOT_SIGNPOST,
                                 generate_root_content(self, r.files)),
          outcome |-> "ok",
          created |-> r.created \o <<<<ROOT_DIR, ROOT_SIGNPOST>>>>,
          visited |-> walked(r.events),
          events  |-> r.events \o <<event("write", ROOT_DIR, ROOT_SIGNPOST)>>]

\* variant of create_signposts that writes the root marker after the walk
create_signposts_root_last(self, fs, max_depth) ==
    IF root_kind # "dir" \/ ROOT_DIR \in unwritable
    THEN [files |-> fs, outcome |-> "raised", created |-> <<>>, visited |-> {},
          events |-> <<event("fail", ROOT_DIR, ROOT_SIGNPOST)>>]
    ELSE root_marker_last(self, create_loop(self, fs, os_walk(TRUE), max_depth))

\* create_signposts(max_depth).  The root marker is rendered and written
\* first, then the walk starts.  Nothing catches an error: on a root that
\* is no directory, or in which no file can be written, the call raises
\* before anything is written; a later write that fails raises with the
\* markers written so far left in place.  A call that raises returns nothing.
create_signposts(self, fs, max_depth) ==
    LET listing == IF self.include_tree /\ root_kind = "dir"
                   THEN tree_listing(ROOT_DIR, 0) ELSE <<>>
    IN  IF root_kind # "dir" \/ ROOT_DIR \in unwritable
        THEN [files |-> fs, outcome |-> "raised", created |-> <<>>, visited |-> {},
              events |-> listing \o <<event("fail", ROOT_DIR, ROOT_SIGNPOST)>>]
        ELSE LET f1 == write_text(fs, ROOT_DIR, ROOT_SIGNPOST, generate_root_content(self, fs))
                 r  == create_loop(self, f1, os_walk(TRUE), max_depth)
             IN  [files   |-> r.files,
                  outcome |-> r.outcome,
                  created |-> IF r.outcome = "ok"
                              THEN <<<<ROOT_DIR, ROOT_SIGNPOST>>>> \o r.created ELSE <<>>,
                  visited |-> walked(r.events)
                              \cup (IF self.include_tree THEN tree_visited(ROOT_DIR, 0) ELSE {}),
                  events  |-> listing \o <<event("write", ROOT_DIR, ROOT_SIGNPOST)>>
                              \o r.events]

\* the markers among the file names of d, in the order of enumeration
signposts_in(fs, d) == SelectSeq(enumerate(file_names(fs, d)), is_signpost_name)

\* the result of remove()'s loops when one directory, with the effects evs
\* and n deletions, is followed by the rest of the walk, r
after_directory(evs, n, r) ==
    [files   |-> r.files,
     outcome |-> r.outcome,
     removed |-> IF r.outcome = "ok" THEN n + r.removed ELSE 0,
     events  |-> evs \o r.events]

\* the loop of remove() over the directories ds that os.walk yields and,
\* in each, over its file names: every marker is unlinked; an unlink that
\* raises ends the loops there
RECURSIVE remove_loop(_, _)
remove_directory(fs, ds, d, names) ==
    IF names # <<>> /\ d \in unwritable
    THEN [files |-> fs, outcome |-> "raised", removed |-> 0,
          events |-> <<event("walk", d, <<>>), event("fail", d, names[1])>>]
    ELSE after_directory(<<event("walk", d, <<>>)>>
                         \o [i \in 1..Len(names) |-> event("unlink", d, names[i])],
                         Len(names),
                         remove_loop(unlink_all(fs, {<<d, n>> : n \in Range(names)}),
                                     Tail(ds)))

remove_loop(fs, ds) ==
    IF ds = <<>> THEN [files |-> fs, outcome |-> "ok", removed |-> 0, events |-> <<>>]
    ELSE remove_directory(fs, ds, Head(ds), signposts_in(fs, Head(ds)))

\* what remove() leaves and returns, from the result r of its loops
removal(r) ==
    [files |-> r.files, outcome |-> r.outcome, removed |-> r.removed,
     visited |-> walked(r.events), events |-> r.events]

\* variant of remove() whose walk prunes the excluded directories
remove_pruned(self, fs) == removal(remove_loop(fs, os_walk(TRUE)))

\* remove(): os.walk without any pruning
remove(self, fs) == removal(remove_loop(fs, os_walk(FALSE)))

\* variant of update() that does not remove the old markers first
update_without_remove(self, fs) ==
    LET c == create_signposts(self, fs, DefaultMaxDepth)
    IN  [files |-> c.files, outcome |-> c.outcome, created |-> c.created,
         visited |-> c.visited, events |-> c.events]

\* what update() leaves, from the result r of its remove() and the result
\* c of its create_signposts(): when remove() raises, create_signposts() is
\* not reached
update_result(r, c) ==
    IF r.outcome = "raised"
    THEN [files |-> r.files, outcome |-> "raised", created |-> <<>>,
          visited |-> r.visited, events |-> r.events]
    ELSE [files |-> c.files, outcome |-> c.outcome, created |-> c.created,
          visited |-> r.visited \cup c.visited, events |-> r.events \o c.events]

\* the result u of update() with the files put back as fs when it raised
rolled_back(u, fs) == IF u.outcome = "raised" THEN [u EXCEPT !.files = fs] ELSE u

\* variant of update() that puts the files back as they were when it raises
update_with_rollback(self, fs) ==
    rolled_back(update_result(remove(self, fs),
                              create_signposts(self, remove(self, fs).files,
                                               DefaultMaxDepth)),
                fs)

\* update(): remove(), then create_signposts() with its default max_depth
update(self, fs) ==
    update_result(remove(self, fs),
                  create_signposts(self, remove(self, fs).files, DefaultMaxDepth))
\* -------------------------------------------------------------- validator
first_line(lines, field) ==
    LET hits == {i \in 1..Len(lines) : startswith(lines[i], field)}
    IN  IF hits = {} THEN <<>> ELSE lines[CHOOSE i \in hits : \A j \in hits : i <= j]

\* line.split(field)[1].strip().rstrip('/')
field_value(line, field) == rstrip(strip(split_second(line, field)), "/")

\* _validate_signpost_content(signpost_path, root_path): the issues it collects
validate_signpost_content(fs, d, name, root) ==
    LET content   == fs[<<d, name>>]
        missing   == SelectSeq(required_fields,
                               LAMBDA f : ~\E i \in 1..Len(content) : contains(content[i], f))
        root_line == first_line(content, ROOT_FIELD)
        here_line == first_line(content, HERE_FIELD)
    IN  [i \in 1..Len(missing) |-> [kind |-> "missing field", dir |-> d, file |-> name,
                                    field |-> missing[i]]]
        \o (IF root_line # <<>> /\ field_value(root_line, ROOT_FIELD) # root
            THEN <<[kind |-> "incorrect ROOT", dir |-> d, file |-> name, field |-> ROOT_FIELD]>>
            ELSE <<>>)
        \o (IF here_line # <<>> /\ field_value(here_line, HERE_FIELD) # abs_path(root, d)
            THEN <<[kind |-> "incorrect HERE", dir |-> d, file |-> name, field |-> HERE_FIELD]>>
            ELSE <<>>)

\* variant of the loop body that goes on to the next directory after a
\* "multiple" issue, as it does after a "missing" one
validate_directory_one_marker(fs, d, root) ==
    LET signpost_files == SelectSeq(enumerate(file_names(fs, d)), is_signpost_name)
    IN  IF d = ROOT_DIR THEN [issues |-> <<>>, checked |-> {}]
        ELSE IF signpost_files = <<>>
        THEN [issues  |-> <<[kind |-> "missing signpost", dir |-> d, file |-> <<>>,
                             field |-> <<>>]>>,
              checked |-> {}]
        ELSE IF Len(signpost_files) > 1
        THEN [issues  |-> <<[kind |-> "multiple signposts", dir |-> d, file |-> <<>>,
                             field |-> <<>>]>>,
              checked |-> {}]
        ELSE [issues  |-> validate_signpost_content(fs, d, signpost_files[1], root),
              checked |-> {<<d, signpost_files[1]>>}]

\* the body of the validator's loop for one directory of the walk:
\* the issues it adds and the file whose content it checks
validate_directory(fs, d, root) ==
    LET signpost_files == SelectSeq(enumerate(file_names(fs, d)), is_signpost_name)
    IN  IF d = ROOT_DIR THEN [issues |-> <<>>, checked |-> {}]
        ELSE IF signpost_files = <<>>
        THEN [issues  |-> <<[kind |-> "missing signpost", dir |-> d, file |-> <<>>,
                             field |-> <<>>]>>,
              checked |-> {}]
        ELSE [issues  |-> (IF Len(signpost_files) > 1
                           THEN <<[kind |-> "multiple signposts", dir |-> d, file |-> <<>>,
                                   field |-> <<>>]>>
                           ELSE <<>>)
                          \o validate_signpost_content(fs, d, signpost_files[1], root),
              checked |-> {<<d, signpost_files[1]>>}]

\* validate_signposts(root_path).  It tests for the root marker, walks and
\* reads; it opens no file for writing and creates or deletes nothing, so the
\* files it leaves are the files it found.
validate_signposts(fs, root) ==
    IF ~(root_kind = "dir" /\ <<ROOT_DIR, ROOT_SIGNPOST>> \in DOMAIN fs)
    THEN [valid |-> FALSE, visited |-> {}, checked |-> {}, files |-> fs,
          issues |-> <<[kind |-> "missing root signpost", dir |-> ROOT_DIR,
                        file |-> ROOT_SIGNPOST, field |-> <<>>]>>]
    ELSE LET ds     == os_walk(TRUE)
             each   == [i \in 1..Len(ds) |-> validate_directory(fs, ds[i], root)]
             issues == validate_signpost_content(fs, ROOT_DIR, ROOT_SIGNPOST, root)
                       \o flatten([i \in 1..Len(ds) |-> each[i].issues])
         IN  [valid   |-> issues = <<>>,
              files   |-> fs,
              issues  |-> issues,
              visited |-> Range(ds),
              checked |-> {<<ROOT_DIR, ROOT_SIGNPOST>>}
                          \cup UNION {each[i].checked : i \in 1..Len(ds)}]

\* check_signpost_coverage(root_path): the two counts whose quotient it returns
check_signpost_coverage(fs, root) ==
    LET ds == os_walk(TRUE)
    IN  [total_dirs          |-> Len(ds),
         dirs_with_signposts |-> Cardinality({i \in 1..Len(ds) :
                                     \E f \in file_names(fs, ds[i]) : is_signpost_name(f)}),
         visited             |-> Range(ds)]

\* variant of validate() that writes the root marker when it finds none
validate_restoring_root(self, fs) ==
    LET v == validate_signposts(fs, self.root_path)
    IN  IF root_kind = "dir" /\ <<ROOT_DIR, ROOT_SIGNPOST>> \notin DOMAIN fs
        THEN [v EXCEPT !.files = write_text(fs, ROOT_DIR, ROOT_SIGNPOST,
                                            generate_root_content(self, fs))]
        ELSE v

\* SignpostGenerator.validate
validate(self, fs) == validate_signposts(fs, self.root_path)

\* ------------------------------------------------------- the environment
N_src ==
    <<"s", "r", "c">>

N_models ==
    <<"m", "o", "d", "e", "l", "s">>

N_tests ==
    <<"t", "e", "s", "t", "s">>

N_config ==
    <<"c", "o", "n", "f", "i", "g">>

N_lib ==
    <<"l", "i", "b">>

N_Docs ==
    <<"D", "o", "c", "s">>

N_dot_git ==
    <<".", "g", "i", "t">>

N_node_modules ==
    <<"n", "o", "d", "e", "_", "m", "o", "d", "u", "l", "e", "s">>

N_env ==
    <<"e", "n", "v">>

N_kw ==
    <<"x", "H", "E", "R", "E", ":", "y">>

N_a ==
    <<"a">>

N_b ==
    <<"b">>

N_c ==
    <<"c">>

N_d ==
    <<"d">>

N_e ==
    <<"e">>

README ==
    <<"R", "E", "A", "D", "M", "E">>

\* a file whose name begins like a marker's and does not end like one
NOTES_MD ==
    <<"_", "C", "A", "R", "D", "I", "N", "A", "L", "_", "N", "O", "T", "E", "S", ".", "m", "d">>

RootA ==
    <<"/", "r">>

RootB ==
    <<"/", "q", "/", "w">>

RULE_1 ==
    <<<<"R", "U", "L", "E", "_", "1">>,
      <<"N", "o", " ", "d", "u", "p", "l", "i", "c", "a", "t", "e", " ", "c", "o", "n", "f", "i", "g", "s">>>>

RULE_2 ==
    <<<<"R", "U", "L", "E", "_", "2">>,
      <<"U", "s", "e", " ", "a", "b", "s", "o", "l", "u", "t", "e", " ", "i", "m", "p", "o", "r", "t", "s">>>>

\* the custom_rules mappings a generator is constructed with (in insertion order)
\* and the configurations: <<include_rules, include_tree, custom_rules>>
Configs ==
    {<<TRUE, FALSE, <<>>>>,
     <<FALSE, FALSE, <<RULE_1, RULE_2>>>>,
     <<TRUE, TRUE, <<RULE_2, RULE_1>>>>,
     <<FALSE, TRUE, <<RULE_1, RULE_2>>>>,
     <<TRUE, FALSE, <<RULE_2, RULE_1>>>>}

SomeText == <<<<"t", "e", "x", "t">>>>

\* the project of the test suite's fixture (with two ordinary files)
ScenarioTree ==
    {<<>>, <<N_src>>, <<N_src, N_models>>, <<N_tests>>, <<N_config>>}

\* a project with excluded directories at several positions
ExcludedTree ==
    {<<>>, <<N_src>>, <<N_src, N_dot_git>>, <<N_node_modules>>, <<N_node_modules, N_lib>>}

\* a project with a directory whose name contains a field label
LabelTree ==
    {<<>>, <<N_Docs>>, <<N_Docs, N_kw>>}

\* a project deeper than the tree renderer lists
DeepTree ==
    {<<>>, <<N_a>>, <<N_a, N_b>>, <<N_a, N_b, N_c>>, <<N_a, N_b, N_c, N_d>>,
     <<N_a, N_b, N_c, N_d, N_e>>}

OrdinaryFiles ==
    (<<ROOT_DIR, README>> :> SomeText) @@ (<<<<N_src>>, NOTES_MD>> :> SomeText)

NoFiles == [k \in {} |-> <<>>]

\* a project that was marked by an earlier run of the tool when it lived at
\* RootB, in which src has since been renamed lib, tests renamed env, and
\* lib/config been added
OldGen ==
    [state |-> "ok", root_path |-> RootB, include_rules |-> TRUE, include_tree |-> FALSE,
     custom_rules |-> <<>>]

StaleTree ==
    {<<>>, <<N_lib>>, <<N_lib, N_models>>, <<N_lib, N_config>>, <<N_env>>}

old_signpost(d) == create_directory_signpost(OldGen, d)[3]

StaleFiles ==
    (<<ROOT_DIR, ROOT_SIGNPOST>> :> generate_root_content(OldGen, NoFiles))
    @@ (<<<<N_lib>>, signpost_filename(<<N_src>>)>> :> old_signpost(<<N_src>>))
    @@ (<<<<N_lib, N_models>>, signpost_filename(<<N_src, N_models>>)>>
            :> old_signpost(<<N_src, N_models>>))
    @@ (<<<<N_env>>, signpost_filename(<<N_tests>>)>> :> old_signpost(<<N_tests>>))

\* the files of ExcludedTree: a package under node_modules carries a marker
ExcludedFiles ==
    OrdinaryFiles
    @@ (<<<<N_node_modules, N_lib>>, signpost_filename(<<N_lib>>)>> :> old_signpost(<<N_lib>>))

\* what root_path names when the generator is constructed, and the order in
\* which the file system lists directory entries there
Worlds ==
    {[kind |-> "dir", dirs |-> ScenarioTree, unreadable |-> {}, unwritable |-> {}, files |-> OrdinaryFiles,
      desc |-> FALSE],
     [kind |-> "dir", dirs |-> ScenarioTree, unreadable |-> {}, unwritable |-> {}, files |-> OrdinaryFiles,
      desc |-> TRUE],
     [kind |-> "dir", dirs |-> ExcludedTree, unreadable |-> {}, unwritable |-> {}, files |-> ExcludedFiles,
      desc |-> TRUE],
     [kind |-> "dir", dirs |-> LabelTree, unreadable |-> {}, unwritable |-> {}, files |-> NoFiles,
      desc |-> FALSE],
     [kind |-> "dir", dirs |-> DeepTree, unreadable |-> {}, unwritable |-> {}, files |-> NoFiles,
      desc |-> FALSE],
     [kind |-> "dir", dirs |-> StaleTree, unreadable |-> {}, unwritable |-> {}, files |-> StaleFiles,
      desc |-> FALSE],
     [kind |-> "dir", dirs |-> StaleTree, unreadable |-> {}, unwritable |-> {}, files |-> StaleFiles,
      desc |-> TRUE],
     [kind |-> "file", dirs |-> {}, unreadable |-> {}, unwritable |-> {}, files |-> NoFiles, desc |-> FALSE],
     [kind |-> "missing", dirs |-> {}, unreadable |-> {}, unwritable |-> {}, files |-> NoFiles, desc |-> FALSE]}

\* the markers a run of the tool with its default settings leaves in the
\* fixture project at RootA
FreshGen ==
    [state |-> "ok", root_path |-> RootA, include_rules |-> TRUE, include_tree |-> FALSE,
     custom_rules |-> <<>>]

root_marker_only ==
    (<<ROOT_DIR, ROOT_SIGNPOST>> :> generate_root_content(FreshGen, NoFiles))

MarkedFiles ==
    write_signposts(FreshGen, root_marker_only,
                    <<<<N_config>>, <<N_src>>, <<N_src, N_models>>, <<N_tests>>>>)

\* the same project with no marker in src and below
PartlyMarkedFiles ==
    write_signposts(FreshGen, root_marker_only, <<<<N_config>>, <<N_tests>>>>)

\* a second file with a marker's name in the root directory
OLD_SIGNPOST == PREFIX \o <<"O", "L", "D">> \o SUFFIX

ExtraRootFiles ==
    MarkedFiles @@ (<<ROOT_DIR, OLD_SIGNPOST>> :> SomeText)

\* projects in which a directory's permissions stop the tool, and a project
\* whose root holds a leftover marker
FaultWorlds ==
    {[kind |-> "dir", dirs |-> ScenarioTree, unreadable |-> {<<N_src>>}, unwritable |-> {},
      files |-> NoFiles, desc |-> FALSE],
     [kind |-> "dir", dirs |-> ScenarioTree, unreadable |-> {}, unwritable |-> {<<N_src>>},
      files |-> NoFiles, desc |-> FALSE],
     [kind |-> "dir", dirs |-> ScenarioTree, unreadable |-> {}, unwritable |-> {<<N_src>>},
      files |-> NoFiles, desc |-> TRUE],
     [kind |-> "dir", dirs |-> ScenarioTree, unreadable |-> {}, unwritable |-> {<<N_src>>},
      files |-> MarkedFiles, desc |-> FALSE],
     [kind |-> "dir", dirs |-> ScenarioTree, unreadable |-> {}, unwritable |-> {<<N_src>>},
      files |-> PartlyMarkedFiles, desc |-> FALSE],
     [kind |-> "dir", dirs |-> ScenarioTree, unreadable |-> {}, unwritable |-> {ROOT_DIR},
      files |-> NoFiles, desc |-> FALSE],
     [kind |-> "dir", dirs |-> ScenarioTree, unreadable |-> {}, unwritable |-> {},
      files |-> ExtraRootFiles, desc |-> FALSE],
     [kind |-> "dir", dirs |-> ScenarioTree, unreadable |-> {}, unwritable |-> {},
      files |-> OrdinaryFiles, desc |-> TRUE]}

\* the directory the user may rename, and the names it may get
RenamedDirs == {<<N_src>>}

RenameNames == {N_lib, N_env}

\* bounds of the model
MaxOps == 3

MaxDepthArg == 1

DepthArgs == 0..MaxDepthArg \cup {DefaultMaxDepth}

\* ---------------------------------------------------------------- actions
NoGen ==
    [state |-> "none", root_path |-> <<>>, include_rules |-> TRUE, include_tree |-> FALSE,
     custom_rules |-> <<>>]

NoCall ==
    [op |-> "none", arg |-> 0, outcome |-> "ok", created |-> <<>>, removed |-> 0,
     valid |-> FALSE, issues |-> <<>>, total_dirs |-> 0, dirs_with_signposts |-> 0,
     visited |-> {}, checked |-> {}, events |-> <<>>, before |-> NoFiles]

ToolOps == {"create", "remove", "update", "validate", "coverage"}

Call(op, arg, r) ==
    [f \in DOMAIN NoCall |->
        IF f = "op" THEN op
        ELSE IF f = "arg" THEN arg
        ELSE IF f = "before" THEN files
        ELSE IF f \in DOMAIN r THEN r[f]
        ELSE NoCall[f]]

\* a call of the tool (counted) or a change made by the user (not counted)
Step(call) ==
    /\ nops' = IF call.op \in ToolOps THEN nops + 1 ELSE nops
    /\ prev' = [last EXCEPT !.before = NoFiles]
    /\ last' = call

Env == <<root_path, root_kind, dirs, unreadable, unwritable, enum_desc>>

\* the project before the tool is started, drawn from the worlds ws
InitIn(ws) ==
    /\ root_path = RootA
    /\ \E w \in ws :
        /\ enum_desc = w.desc
        /\ root_kind = w.kind
        /\ dirs = w.dirs
        /\ unreadable = w.unreadable
        /\ unwritable = w.unwritable
        /\ files = w.files
    /\ gen = NoGen
    /\ last = NoCall
    /\ prev = NoCall
    /\ nops = 0

Init == InitIn(Worlds)

InitFaults == InitIn(FaultWorlds)

\* SignpostGenerator(root_path, include_rules, include_tree, custom_rules)
init(include_rules, include_tree, custom_rules) ==
    IF root_kind = "missing"
    THEN [NoGen EXCEPT !.state = "raised"]
    ELSE [state |-> "ok", root_path |-> root_path, include_rules |-> include_rules,
          include_tree |-> include_tree, custom_rules |-> custom_rules]

Construct ==
    \E c \in Configs :
        /\ nops < MaxOps
        /\ gen.state = "none"
        /\ gen' = init(c[1], c[2], c[3])
        /\ Step(Call("init", 0, [outcome |-> IF gen'.state = "ok" THEN "ok" ELSE "raised"]))
        /\ UNCHANGED <<Env, files>>

Create ==
    \E max_depth \in DepthArgs :
        LET r == create_signposts(gen, files, max_depth) IN
        /\ nops < MaxOps
    /\ gen.state = "ok"
        /\ files' = r.files
        /\ Step(Call("create", max_depth, r))
        /\ UNCHANGED <<Env, gen>>

Remove ==
    LET r == remove(gen, files) IN
    /\ nops < MaxOps
    /\ gen.state = "ok"
    /\ files' = r.files
    /\ Step(Call("remove", 0, r))
    /\ UNCHANGED <<Env, gen>>

Update ==
    LET r == update(gen, files) IN
    /\ nops < MaxOps
    /\ gen.state = "ok"
    /\ files' = r.files
    /\ Step(Call("update", DefaultMaxDepth, r))
    /\ UNCHANGED <<Env, gen>>

Validate ==
    LET r == validate(gen, files) IN
    /\ nops < MaxOps
    /\ gen.state = "ok"
    /\ files' = r.files
    /\ Step(Call("validate", 0, r))
    /\ UNCHANGED <<Env, gen>>

Coverage ==
    /\ nops < MaxOps
    /\ gen.state = "ok"
    /\ Step(Call("coverage", 0, check_signpost_coverage(files, gen.root_path)))
    /\ UNCHANGED <<Env, gen, files>>

\* the user renames a directory (its files, markers included, go with it)
moved(p, d, n) ==
    IF Len(p) >= Len(d) /\ SubSeq(p, 1, Len(d)) = d
    THEN SubSeq(d, 1, Len(d) - 1) \o <<n>> \o SubSeq(p, Len(d) + 1, Len(p))
    ELSE p

RenameDir ==
    \E d \in dirs \cap RenamedDirs, n \in RenameNames :
        /\ nops < MaxOps
        /\ last.op = "create"
        /\ moved(d, d, n) \notin dirs
        /\ dirs' = {moved(p, d, n) : p \in dirs}
        /\ unreadable' = {moved(p, d, n) : p \in unreadable}
        /\ unwritable' = {moved(p, d, n) : p \in unwritable}
        /\ files' = [k \in {<<moved(x[1], d, n), x[2]>> : x \in DOMAIN files} |->
                        files[CHOOSE x \in DOMAIN files : <<moved(x[1], d, n), x[2]>> = k]]
        /\ Step(Call("rename", 0, [outcome |-> "ok"]))
        /\ UNCHANGED <<root_path, root_kind, enum_desc, gen>>

Next ==
    \/ Construct
    \/ Create
    \/ Remove
    \/ Update
    \/ Validate
    \/ Coverage
    \/ RenameDir

Spec == Init /\ [][Next]_vars

\* the same tool on projects with permission faults and leftover markers
SpecFaults == InitFaults /\ [][Next]_vars

PYCACHE ==
    <<"_", "_", "p", "y", "c", "a", "c", "h", "e", "_", "_">>

VENV ==
    <<"v", "e", "n", "v">>

\* ------------------------------------------------------------- properties
Markers(fs) == {k \in DOMAIN fs : is_signpost_name(k[2])}

Deleted == DOMAIN last.before \ DOMAIN files

TreeDepth == IF dirs = {} THEN 0 ELSE CHOOSE n \in 0..8 :
                 (\E d \in dirs : Len(d) = n) /\ (\A d \in dirs : Len(d) <= n)

\* a directory that the walks prune: it, or a directory above it, has an excluded name
HasExcludedName(d) ==
    \E i \in 1..Len(d) :
        \/ d[i][1] = "."
        \/ d[i] \in {N_node_modules, N_env, N_dot_git, PYCACHE, VENV}

\* a directory all of whose ancestors, and itself, can be listed
Listable(d) == root_kind = "dir" /\ \A i \in 0..Len(d) : SubSeq(d, 1, i) \notin unreadable

Tracked == {d \in dirs : Listable(d) /\ ~HasExcludedName(d)}

CreatedOk == last.op \in {"create", "update"} /\ last.outcome = "ok"

\* C1: for every directory tree under an existing root that holds no markers
\* but those create_signposts(max_depth) has just written, with max_depth at
\* least the depth of the tree, validate() returns true.
C1_CreateThenValidate ==
    (/\ last.op = "validate"
     /\ prev.op = "create"
     /\ prev.outcome = "ok"
     /\ prev.arg >= TreeDepth
     /\ Markers(files) = Range(prev.created))
    => last.valid

\* C2: a second create_signposts directly after a first leaves every marker the
\* first wrote, the root marker included, with the content the first wrote.
C2_CreateTwiceSameContent ==
    (/\ last.op = "create"
     /\ last.outcome = "ok"
     /\ prev.op = "create"
     /\ prev.outcome = "ok")
    => \A k \in Range(prev.created) : k \in DOMAIN files /\ files[k] = last.before[k]

\* C3: update() leaves the files, and returns the paths, that remove() followed
\* by create_signposts() leaves and returns from the same starting state; the
\* markers left are exactly those returned, whatever markers were there before.
C3_UpdateIsRemoveThenCreate ==
    last.op = "update" =>
        LET r == remove(gen, last.before)
            c == create_signposts(gen, r.files, DefaultMaxDepth)
        IN  /\ files = c.files
            /\ last.created = c.created
            /\ last.outcome = c.outcome
            /\ last.outcome = "ok" =>
                  /\ {k \in Markers(files) : Listable(k[1])} \subseteq Range(last.created)
                  /\ Range(last.created) \subseteq Markers(files)

C3_Witness ==
    /\ last.op = "update"
    /\ last.outcome = "ok"
    /\ Markers(last.before) \ Range(last.created) # {}
    /\ Len(last.created) > 1

\* C4 as stated: remove() after create_signposts() deletes exactly the files
\* that create_signposts() created and returns their number; after any remove()
\* no marker-named file remains; a second remove() returns 0.
C4_RemoveExactlyCreated ==
    last.op = "remove" =>
        /\ Markers(files) = {}
        /\ prev.op = "remove" => last.removed = 0
        /\ (prev.op = "create" /\ prev.outcome = "ok") =>
              /\ Deleted = Range(prev.created)
              /\ last.removed = Len(prev.created)

\* C4 amended: remove() deletes exactly the marker-named files of the
\* directories under the root that can be listed, excluded directories
\* included: those the preceding create_signposts() wrote there and those that
\* were there before it.  It returns their number, changes no other file, and a
\* second remove() returns 0.
C4_RemoveEveryMarker ==
    last.op = "remove" =>
        /\ Deleted = {k \in Markers(last.before) : Listable(k[1])}
        /\ last.removed = Cardinality(Deleted)
        /\ \A k \in DOMAIN files : files[k] = last.before[k]
        /\ {k \in Markers(files) : Listable(k[1])} = {}
        /\ prev.op = "remove" => last.removed = 0
        /\ (prev.op = "create" /\ prev.outcome = "ok") =>
              {k \in Range(prev.created) : Listable(k[1])} \subseteq Deleted

C4_Witness ==
    /\ last.op = "remove"
    /\ prev.op = "create"
    /\ prev.outcome = "ok"
    /\ Len(prev.created) > 1
    /\ Deleted \ Range(prev.created) # {}
    /\ \E k \in Deleted : HasExcludedName(k[1])
    /\ DOMAIN files # {}

\* C5 as stated: no traversal of the tool (create, validate, remove, coverage)
\* visits a directory with an excluded name or a directory beneath one, and no
\* marker is written there.
C5_ExcludedNeverVisited ==
    /\ \A d \in last.visited : ~HasExcludedName(d)
    /\ CreatedOk => \A k \in Range(last.created) : ~HasExcludedName(k[1])

\* C5 amended: the traversals of create, validate and coverage (and the tree
\* renderer) visit no directory with an excluded name and none beneath one,
\* and create and update write no file there; remove() does walk these
\* directories (and deletes the marker-named files in them).
C5_ExcludedPruned ==
    /\ last.op \in {"create", "validate", "coverage"} =>
          \A d \in last.visited : ~HasExcludedName(d)
    /\ last.op = "create" =>
          \A k \in DOMAIN files \cup DOMAIN last.before :
              HasExcludedName(k[1]) =>
                  /\ k \in DOMAIN files
                  /\ k \in DOMAIN last.before
                  /\ files[k] = last.before[k]
    /\ CreatedOk => \A k \in Range(last.created) : ~HasExcludedName(k[1])
    /\ (last.op = "remove" /\ root_kind = "dir") =>
          last.visited = {d \in dirs : Listable(d)}

C5_Witness ==
    /\ last.op = "create"
    /\ last.outcome = "ok"
    /\ gen.include_tree
    /\ last.arg = DefaultMaxDepth
    /\ \E d \in dirs : Len(d) = 1 /\ HasExcludedName(d)
    /\ \E d \in dirs : Len(d) = 2 /\ HasExcludedName(d) /\ ~HasExcludedName(SubSeq(d, 1, 1))
    /\ \E d \in dirs : Len(d) = 2 /\ HasExcludedName(SubSeq(d, 1, 1)) /\ d[2] = N_lib
    /\ \E k \in Markers(files) : HasExcludedName(k[1])

\* the ROOT: value of a marker: the text after the label on the first line
\* that begins with it, without surrounding blanks and one trailing slash
RootValue(content) ==
    LET is == {i \in 1..Len(content) :
                  Len(content[i]) >= 5 /\ SubSeq(content[i], 1, 5) = ROOT_FIELD}
        l  == content[CHOOSE i \in is : \A j \in is : i <= j]
        v  == strip(SubSeq(l, 6, Len(l)))
    IN  IF is = {} THEN <<"no ROOT: line">>
        ELSE IF v # <<>> /\ v[Len(v)] = "/" THEN SubSeq(v, 1, Len(v) - 1) ELSE v

MarkersIn(d) == {k \in Markers(files) : k[1] = d}

\* the marker of d that the file system enumerates first
FirstMarker(d) ==
    CHOOSE k \in MarkersIn(d) :
        \A o \in MarkersIn(d) :
            o = k \/ (IF enum_desc THEN str_less(o[2], k[2]) ELSE str_less(k[2], o[2]))

HasIssue(kind, d) == \E i \in 1..Len(last.issues) :
                         last.issues[i].kind = kind /\ last.issues[i].dir = d

RootMarkerPresent == <<ROOT_DIR, ROOT_SIGNPOST>> \in DOMAIN files

\* C6 as stated: validate() returns false and records the corresponding issue
\* whenever a tracked directory other than the root (a) has no marker, (b) has
\* two markers or (c) has a marker whose ROOT: value is not the root path; in
\* case (b) the content of the first marker in enumeration order is checked.
C6_ValidateRecordsEach ==
    last.op = "validate" =>
        \A d \in Tracked \ {ROOT_DIR} :
            /\ MarkersIn(d) = {} =>
                  ~last.valid /\ HasIssue("missing signpost", d)
            /\ Cardinality(MarkersIn(d)) >= 2 =>
                  /\ ~last.valid
                  /\ HasIssue("multiple signposts", d)
                  /\ FirstMarker(d) \in last.checked
            /\ (\E k \in MarkersIn(d) : RootValue(files[k]) # root_path) =>
                  ~last.valid /\ HasIssue("incorrect ROOT", d)

\* C6 amended: validate() returns false in each of the cases (a), (b), (c).
\* When the root marker is absent it returns at once, recording only that and
\* checking no directory.  Otherwise it records a missing issue in case (a), a
\* multiple issue in case (b), where it checks the content of the first marker
\* in enumeration order and of no other, and an incorrect-ROOT issue in case
\* (c) when the marker with the wrong value is the one it checks.
C6_ValidateDetects ==
    last.op = "validate" =>
        /\ ~RootMarkerPresent =>
              /\ ~last.valid
              /\ Len(last.issues) = 1
              /\ last.issues[1].kind = "missing root signpost"
              /\ last.checked = {}
        /\ \A d \in Tracked \ {ROOT_DIR} :
              /\ MarkersIn(d) = {} =>
                    /\ ~last.valid
                    /\ RootMarkerPresent => HasIssue("missing signpost", d)
              /\ Cardinality(MarkersIn(d)) >= 2 =>
                    /\ ~last.valid
                    /\ RootMarkerPresent =>
                          /\ HasIssue("multiple signposts", d)
                          /\ last.checked \cap MarkersIn(d) = {FirstMarker(d)}
              /\ (\E k \in MarkersIn(d) : RootValue(files[k]) # root_path) =>
                    /\ ~last.valid
                    /\ (RootMarkerPresent /\ RootValue(files[FirstMarker(d)]) # root_path) =>
                          \E i \in 1..Len(last.issues) :
                              /\ last.issues[i].kind = "incorrect ROOT"
                              /\ last.issues[i].dir = d
                              /\ last.issues[i].file = FirstMarker(d)[2]

C6_Witness ==
    /\ last.op = "validate"
    /\ RootMarkerPresent
    /\ \E d \in Tracked : MarkersIn(d) = {}
    /\ \E d \in Tracked \ {ROOT_DIR} :
          /\ Cardinality(MarkersIn(d)) = 2
          /\ RootValue(files[FirstMarker(d)]) = root_path
          /\ \E k \in MarkersIn(d) : RootValue(files[k]) # root_path
    /\ \E d \in Tracked \ {ROOT_DIR} :
          /\ Cardinality(MarkersIn(d)) = 1
          /\ RootValue(files[FirstMarker(d)]) # root_path

\* the names of the model's directories in upper case, written out
UpperCased ==
    <<<<N_src, <<"S", "R", "C">>>>,
      <<N_models, <<"M", "O", "D", "E", "L", "S">>>>,
      <<N_tests, <<"T", "E", "S", "T", "S">>>>,
      <<N_config, <<"C", "O", "N", "F", "I", "G">>>>,
      <<N_lib, <<"L", "I", "B">>>>,
      <<N_Docs, <<"D", "O", "C", "S">>>>,
      <<N_kw, <<"X", "H", "E", "R", "E", ":", "Y">>>>,
      <<N_a, <<"A">>>>,
      <<N_b, <<"B">>>>,
      <<N_c, <<"C">>>>,
      <<N_d, <<"D">>>>,
      <<N_e, <<"E">>>>>>

\* the roles of the model's directories, written out
RoleOf ==
    <<<<N_src, <<"S", "o", "u", "r", "c", "e", " ", "c", "o", "d", "e">>>>,
      <<N_models, <<"D", "a", "t", "a", " ", "m", "o", "d", "e", "l", "s">>>>,
      <<N_tests, <<"T", "e", "s", "t", " ", "s", "u", "i", "t", "e">>>>,
      <<N_config, <<"C", "o", "n", "f", "i", "g", "u", "r", "a", "t", "i", "o", "n", " ", "f", "i", "l", "e", "s">>>>,
      <<N_lib, <<"L", "i", "b", "r", "a", "r", "y", " ", "c", "o", "d", "e">>>>,
      <<N_Docs, <<"D", "o", "c", "u", "m", "e", "n", "t", "a", "t", "i", "o", "n">>>>,
      <<N_kw, <<"X", "h", "e", "r", "e", ":", "y", " ", "d", "i", "r", "e", "c", "t", "o", "r", "y">>>>,
      <<N_a, <<"A", " ", "d", "i", "r", "e", "c", "t", "o", "r", "y">>>>,
      <<N_b, <<"B", " ", "d", "i", "r", "e", "c", "t", "o", "r", "y">>>>,
      <<N_c, <<"C", " ", "d", "i", "r", "e", "c", "t", "o", "r", "y">>>>,
      <<N_d, <<"D", " ", "d", "i", "r", "e", "c", "t", "o", "r", "y">>>>,
      <<N_e, <<"E", " ", "d", "i", "r", "e", "c", "t", "o", "r", "y">>>>>>

LIT_CARDINAL ==
    <<"_", "C", "A", "R", "D", "I", "N", "A", "L", "_">>

LIT_TXT ==
    <<".", "t", "x", "t">>

LIT_ROOT_MARKER ==
    <<"_", "C", "A", "R", "D", "I", "N", "A", "L", "_", "R", "O", "O", "T", ".", "t", "x", "t">>

LIT_SRC_MODELS_MARKER ==
    <<"_", "C", "A", "R", "D", "I", "N", "A", "L", "_", "S", "R", "C", "_", "M", "O", "D", "E", "L", "S", ".", "t", "x", "t">>

LIT_SRC_MARKER ==
    <<"_", "C", "A", "R", "D", "I", "N", "A", "L", "_", "S", "R", "C", ".", "t", "x", "t">>

LIT_ROLE_SOURCE_CODE ==
    <<"R", "O", "L", "E", ":", " ", "S", "o", "u", "r", "c", "e", " ", "c", "o", "d", "e">>

LIT_ROLE_MODELS_DIRECTORY ==
    <<"R", "O", "L", "E", ":", " ", "M", "o", "d", "e", "l", "s", " ", "d", "i", "r", "e", "c", "t", "o", "r", "y">>

LIT_ROLE_DATA_MODELS ==
    <<"R", "O", "L", "E", ":", " ", "D", "a", "t", "a", " ", "m", "o", "d", "e", "l", "s">>

LIT_ROLE ==
    <<"R", "O", "L", "E", ":", " ">>

LIT_RULE_1_LINE ==
    <<"-", " ", "R", "U", "L", "E", "_", "1", ":", " ", "N", "o", " ", "d", "u", "p", "l", "i", "c", "a", "t", "e", " ", "c", "o", "n", "f", "i", "g", "s">>

LIT_RULE_2_LINE ==
    <<"-", " ", "R", "U", "L", "E", "_", "2", ":", " ", "U", "s", "e", " ", "a", "b", "s", "o", "l", "u", "t", "e", " ", "i", "m", "p", "o", "r", "t", "s">>

Lookup(table, name) ==
    table[CHOOSE i \in 1..Len(table) : table[i][1] = name][2]

RECURSIVE UpperJoined(_)
UpperJoined(d) ==
    IF Len(d) = 1 THEN Lookup(UpperCased, d[1])
    ELSE Lookup(UpperCased, d[1]) \o <<"_">> \o UpperJoined(Tail(d))

ExpectedName(d) == LIT_CARDINAL \o UpperJoined(d) \o LIT_TXT

\* the files a call wrote: those that are new or whose content changed
Written == {k \in DOMAIN files : k \notin DOMAIN last.before \/ files[k] # last.before[k]}

HasLine(k, line) == k \in DOMAIN files /\ \E i \in 1..Len(files[k]) : files[k][i] = line

\* C7: the marker of every non-root directory at p1/.../pn that
\* create_signposts marks is written inside that directory under the name
\* _CARDINAL_ + P1_..._Pn (upper case) + .txt; the root marker is
\* _CARDINAL_ROOT.txt in the root; nothing else is written.
C7_FilenameDerivation ==
    CreatedOk =>
        /\ last.created[1] = <<ROOT_DIR, LIT_ROOT_MARKER>>
        /\ \A i \in 2..Len(last.created) :
              /\ last.created[i][1] \in dirs \ {ROOT_DIR}
              /\ last.created[i][2] = ExpectedName(last.created[i][1])
        /\ \A k \in Range(last.created) : k \in DOMAIN files
        /\ Written \subseteq Range(last.created)
        /\ \A i \in 1..Len(last.created) :
              last.created[i][1] = <<N_src, N_models>> =>
                  last.created[i][2] = LIT_SRC_MODELS_MARKER

C7_Witness ==
    /\ CreatedOk
    /\ <<<<N_src, N_models>>, LIT_SRC_MODELS_MARKER>> \in Range(last.created) \cap Written
    /\ <<ROOT_DIR, LIT_ROOT_MARKER>> \in Written
    /\ Len(last.created) = 5

ScenarioCreated ==
    /\ dirs = ScenarioTree
    /\ last.op = "create"
    /\ last.outcome = "ok"
    /\ last.arg = DefaultMaxDepth

\* C8 as stated: on the tree {root, src, src/models, tests, config}
\* create_signposts() returns 5 paths, src/_CARDINAL_SRC.txt has the line
\* 'ROLE: Source code' and src/models/_CARDINAL_SRC_MODELS.txt has the line
\* 'ROLE: Models directory'.
C8_ScenarioModelsDirectory ==
    ScenarioCreated =>
        /\ Len(last.created) = 5
        /\ HasLine(<<<<N_src>>, LIT_SRC_MARKER>>, LIT_ROLE_SOURCE_CODE)
        /\ HasLine(<<<<N_src, N_models>>, LIT_SRC_MODELS_MARKER>>, LIT_ROLE_MODELS_DIRECTORY)

\* C8 amended: on that tree create_signposts() returns 5 paths,
\* src/_CARDINAL_SRC.txt has the line 'ROLE: Source code' and
\* src/models/_CARDINAL_SRC_MODELS.txt has the line 'ROLE: Data models' (the
\* table maps "models"); the role of every marked directory is the table's
\* entry for its lower-cased base name, otherwise '<Capitalized name> directory'.
C8_ScenarioDataModels ==
    /\ ScenarioCreated =>
          /\ Len(last.created) = 5
          /\ HasLine(<<<<N_src>>, LIT_SRC_MARKER>>, LIT_ROLE_SOURCE_CODE)
          /\ HasLine(<<<<N_src, N_models>>, LIT_SRC_MODELS_MARKER>>, LIT_ROLE_DATA_MODELS)
          /\ ~HasLine(<<<<N_src, N_models>>, LIT_SRC_MODELS_MARKER>>, LIT_ROLE_MODELS_DIRECTORY)
    /\ CreatedOk =>
          \A i \in 2..Len(last.created) :
              LET k == last.created[i]
              IN  files[k][Len(files[k])] = LIT_ROLE \o Lookup(RoleOf, k[1][Len(k[1])])

C8_Witness ==
    /\ ScenarioCreated
    /\ HasLine(<<<<N_src, N_models>>, LIT_SRC_MODELS_MARKER>>, LIT_ROLE_DATA_MODELS)

RuleLine(rule) == IF rule = RULE_1 THEN LIT_RULE_1_LINE ELSE LIT_RULE_2_LINE

\* C9: every pair of custom_rules appears in the root marker written by
\* create_signposts as its own line '- <key>: <value>', in the mapping's
\* insertion order, whatever include_rules and include_tree are; no such line
\* appears in a marker of another directory.
C9_CustomRulesInRoot ==
    CreatedOk =>
        LET c == files[<<ROOT_DIR, LIT_ROOT_MARKER>>]
            n == Len(gen.custom_rules)
        IN  /\ n > 0 =>
                  \E at \in 0..Len(c) - n :
                      \A j \in 1..n : c[at + j] = RuleLine(gen.custom_rules[j])
            /\ \A i \in 2..Len(last.created) :
                  /\ ~HasLine(last.created[i], LIT_RULE_1_LINE)
                  /\ ~HasLine(last.created[i], LIT_RULE_2_LINE)

C9_Witness ==
    /\ CreatedOk
    /\ Len(last.created) > 1
    /\ gen.custom_rules = <<RULE_2, RULE_1>>
    /\ gen.include_tree
    /\ HasLine(<<ROOT_DIR, LIT_ROOT_MARKER>>, LIT_RULE_1_LINE)

\* C10: when the root path does not exist or is no readable directory, the
\* construction of the generator raises, so that no create_signposts, update
\* or remove runs and no file is written or deleted.
C10_BadRootRaisesAtConstruction ==
    (root_kind # "dir" \/ ROOT_DIR \in unreadable) =>
        /\ gen.state # "ok"
        /\ last.op \in {"none", "init"}
        /\ files = NoFiles


\* ------------------------------------------------- order, depth, failures
\* the positions in a run of events at which a marker was written
Writes(evs) == {i \in 1..Len(evs) : evs[i].kind = "write"}

RootWrite == event("write", ROOT_DIR, ROOT_SIGNPOST)

\* the root marker has been written before position i
RootWrittenBefore(evs, i) == \E j \in 1..(i - 1) : evs[j] = RootWrite

\* C11: in every run of create_signposts (update()'s included) the first
\* marker written is the root marker and every directory marker is written
\* after it; the walk yields no directory, the root or a subdirectory, to the
\* loop that places the markers before the root marker is written; and the
\* root marker's path is the first element of the sequence returned.
C11_RootMarkerFirst ==
    last.op \in {"create", "update"} =>
        /\ \A i \in Writes(last.events) :
              last.events[i] = RootWrite \/ RootWrittenBefore(last.events, i)
        /\ last.op = "create" =>
              \A i \in 1..Len(last.events) :
                  last.events[i].kind = "walk" => RootWrittenBefore(last.events, i)
        /\ last.outcome = "ok" =>
              /\ last.created # <<>>
              /\ last.created[1] = <<ROOT_DIR, ROOT_SIGNPOST>>

\* a create_signposts that wrote the root marker and directory markers for a
\* generator that renders the tree
C11_Witness ==
    /\ last.op = "create"
    /\ last.outcome = "ok"
    /\ gen.include_tree
    /\ Len(last.created) >= 3
    /\ Cardinality(Writes(last.events)) = Len(last.created)

\* the directories the walk of create and validate has to act on and cannot
\* read: not excluded, reached through directories that can be listed
UnreadableTracked ==
    {d \in unreadable \cap dirs :
        /\ d # ROOT_DIR
        /\ ~HasExcludedName(d)
        /\ Listable(SubSeq(d, 1, Len(d) - 1))}

Beneath(d) == {p \in dirs : Len(p) >= Len(d) /\ SubSeq(p, 1, Len(d)) = d}

Reported(d) == \E i \in 1..Len(last.issues) : last.issues[i].dir = d

\* C12: a non-excluded directory that cannot be read is never passed over in
\* silence: a create_signposts that has to mark it raises, a validate()
\* raises or reports it, and validate() does not return true while it, or a
\* directory beneath it, has no marker.
C12_UnreadableNeverSilent ==
    \A d \in UnreadableTracked :
        /\ (last.op = "create" /\ Len(d) <= last.arg) => last.outcome = "raised"
        /\ last.op = "validate" =>
              /\ last.outcome = "raised" \/ Reported(d)
              /\ last.valid => \A p \in Beneath(d) : MarkersIn(p) # {}

\* the non-root directories that are not pruned and lie at depth 1..max_depth
Eligible(max_depth) ==
    {d \in dirs : ~HasExcludedName(d) /\ 1 <= Len(d) /\ Len(d) <= max_depth}

\* the markers written in directory d during the last call
WritesIn(d) == {i \in Writes(last.events) : last.events[i].dir = d}

NoDuplicates(s) == \A i, j \in 1..Len(s) : s[i] = s[j] => i = j

\* C13: create_signposts(max_depth) writes a marker in a non-root directory
\* if and only if the directory is not pruned and its depth is in
\* 1..max_depth, one file per such directory; the returned sequence has no
\* duplicates and its length is 1 + the number of such directories.
C13_DepthBoundedMarkers ==
    (last.op = "create" /\ last.outcome = "ok") =>
        /\ \A d \in dirs \ {ROOT_DIR} : (WritesIn(d) # {}) <=> d \in Eligible(last.arg)
        /\ \A d \in Eligible(last.arg) :
              /\ Cardinality(WritesIn(d)) = 1
              /\ Cardinality({k \in Written : k[1] = d}) <= 1
              /\ <<d, ExpectedName(d)>> \in DOMAIN files
        /\ Written \subseteq Range(last.created)
        /\ NoDuplicates(last.created)
        /\ Len(last.created) = 1 + Cardinality(Eligible(last.arg))

\* a create_signposts whose max_depth cuts the tree: a directory at depth
\* max_depth got its marker and a deeper one, not excluded, got none
C13_Witness ==
    /\ last.op = "create"
    /\ last.outcome = "ok"
    /\ last.arg >= 1
    /\ \E d \in Eligible(last.arg) : Len(d) = last.arg
    /\ \E d \in dirs : ~HasExcludedName(d) /\ Len(d) > last.arg /\ MarkersIn(d) = {}

\* the positions at which a write or a deletion failed, and the positions of
\* the writes and deletions of the file k
Fails(evs) == {i \in 1..Len(evs) : evs[i].kind = "fail"}

Touches(evs, k) ==
    {i \in 1..Len(evs) : evs[i].kind \in {"write", "unlink"} /\ <<evs[i].dir, evs[i].file>> = k}

LastTouch(evs, k) == CHOOSE i \in Touches(evs, k) : \A j \in Touches(evs, k) : j <= i

\* the files are what the effects in evs, applied in order to the files
\* before the call, leave: nothing has been put back or taken away
NoRollback(evs) ==
    \A k \in DOMAIN last.before \cup DOMAIN files \cup
             {<<evs[i].dir, evs[i].file>> : i \in Writes(evs)} :
        IF Touches(evs, k) = {}
        THEN k \in DOMAIN files /\ k \in DOMAIN last.before /\ files[k] = last.before[k]
        ELSE (k \in DOMAIN files) <=> (evs[LastTouch(evs, k)].kind = "write")

\* C14: in create_signposts, remove and update a write or a deletion that
\* fails is not caught: the call raises, the failure is its last effect (no
\* marker is processed after it), and the files are left as the effects
\* before the failure made them: markers written stay written, markers
\* deleted stay deleted, and nothing that update() removed is restored when
\* its create phase fails.
C14_FailurePropagatesNoRollback ==
    last.op \in {"create", "remove", "update"} =>
        /\ (Fails(last.events) # {}) <=> (last.outcome = "raised")
        /\ \A i \in Fails(last.events) : i = Len(last.events)
        /\ NoRollback(last.events)

\* an update() that deleted markers, wrote some again and then failed on a
\* write, leaving a directory that had a marker without one
C14_Witness ==
    /\ last.op = "update"
    /\ last.outcome = "raised"
    /\ \E i \in Writes(last.events) : i < Len(last.events)
    /\ \E i \in 1..Len(last.events) :
          /\ last.events[i].kind = "unlink"
          /\ <<last.events[i].dir, last.events[i].file>> \in DOMAIN last.before
          /\ <<last.events[i].dir, last.events[i].file>> \notin DOMAIN files
    /\ \E i \in Writes(last.events) :
          <<last.events[i].dir, last.events[i].file>> \in DOMAIN files

\* C15: validate() is read-only: whatever it returns, the early return on
\* an absent root marker included, a step that is a call of validate()
\* leaves the set of directories, the set of files and every file's
\* content as they were.
C15_ValidateReadOnly ==
    [][(last'.op = "validate" /\ nops' = nops + 1)
           => (files' = files /\ dirs' = dirs /\ root_kind' = root_kind)]_vars

\* a validate() that returned early on a project that has files and no root
\* marker, and left the files as they were
C15_Witness ==
    /\ last.op = "validate"
    /\ ~last.valid
    /\ last.checked = {}
    /\ root_kind = "dir"
    /\ ~RootMarkerPresent
    /\ files # NoFiles
    /\ files = last.before

\* the value on the first line of a marker that begins with HERE:, without
\* a trailing slash
HereValue(content) ==
    LET is == {i \in 1..Len(content) :
                  Len(content[i]) >= 5 /\ SubSeq(content[i], 1, 5) = HERE_FIELD}
        l  == content[CHOOSE i \in is : \A j \in is : i <= j]
        v  == strip(SubSeq(l, 6, Len(l)))
    IN  IF is = {} THEN <<"no HERE: line">>
        ELSE IF v # <<>> /\ v[Len(v)] = "/" THEN SubSeq(v, 1, Len(v) - 1) ELSE v

\* the Signpost invariant for one directory: exactly one marker, whose ROOT:
\* value is the project root and whose HERE: value is the directory itself
SignpostInvariant(d) ==
    /\ Cardinality(MarkersIn(d)) = 1
    /\ \A k \in MarkersIn(d) :
          /\ RootValue(files[k]) = root_path
          /\ HereValue(files[k]) = abs_path(root_path, d)

\* C16: whenever validate() returns true, the Signpost invariant holds for
\* the root and for every directory that the exclusions do not prune.
C16_ValidImpliesInvariant ==
    (last.op = "validate" /\ last.valid) =>
        \A d \in dirs : ~HasExcludedName(d) => SignpostInvariant(d)

\* the non-root directories, not excluded, that held before the last call a
\* marker under another name than the one create_signposts derives for them
HeldOtherMarker ==
    {d \in {p \in dirs \ {ROOT_DIR} : ~HasExcludedName(p)} :
        \E k \in {x \in DOMAIN last.before : x[1] = d} :
            is_signpost_name(k[2]) /\ k[2] # ExpectedName(d)}

\* C17: on a tree whose non-excluded directories can all be read and lie at
\* depth <= 10, whatever markers were there before, validate() returns true
\* immediately after update(); whereas create_signposts() alone leaves a
\* directory that already held a marker under a different name with two
\* markers.
C17_UpdateThenValidate ==
    /\ (/\ last.op = "validate"
        /\ prev.op = "update"
        /\ prev.outcome = "ok"
        /\ TreeDepth <= DefaultMaxDepth
        /\ \A d \in dirs : ~HasExcludedName(d) => Listable(d))
       => last.valid
    /\ (last.op = "create" /\ last.outcome = "ok") =>
          \A d \in HeldOtherMarker :
              Len(d) <= last.arg => Cardinality(MarkersIn(d)) >= 2
====
